---- MODULE Spec2Model ----
(***************************************************************************)
(* Document Q&A system with RAG: the FastAPI handlers of backend/main.py   *)
(* (upload, query, delete) over the in-memory registry documents_db and    *)
(* the ChromaDB collection owned by services/vector_store.py.              *)
(*                                                                         *)
(* Abstractions.  A text is a sequence of paragraphs; paragraph i of the   *)
(* uploaded texts is the number i and 0 is a whitespace-only paragraph.    *)
(* Paragraphs are taken to be of chunk size, so the splitter yields one    *)
(* chunk per non-blank paragraph.  An embedding vector is a point on a     *)
(* line and the collection's distance is the squared difference.  uuid4    *)
(* is a counter of fresh identifiers.  The ChromaDB collection is a set of *)
(* records; its add validates the batch before it stores anything and its  *)
(* query returns the n_results nearest records, ties in any order.         *)
(***************************************************************************)
EXTENDS Integers, Sequences, FiniteSets, TLC

\* ------------------------------------------------------------- bounds
NumSlots == 2
MaxDocs == 2
MaxChunks == 2
MaxTopK == 2
MaxCalls == 3

Slots == 1..NumSlots
DocIds == 1..MaxDocs
TopKs == 0..MaxTopK

\* The question asked is the text of paragraph 1.
Questions == {1}
\* One file name of a supported type and one of an unsupported type.
Filenames == {"f.txt", "f.exe"}

\* What the client sends as file bytes: bytes the extractor can read as
\* the text `text` (the first k paragraphs, or one blank paragraph), or
\* bytes it cannot read at all (ok = FALSE).
Contents ==
    {[ok |-> TRUE, text |-> [i \in 1..k |-> i]] : k \in 0..MaxChunks}
        \cup {[ok |-> TRUE, text |-> <<0>>]}
        \cup {[ok |-> FALSE, text |-> <<>>]}

\* ------------------------------------------------ document_processor.py
\* str.endswith on the file name.
Suffix(filename) ==
    CASE filename = "f.txt" -> ".txt"
      [] filename = "f.pdf" -> ".pdf"
      [] filename = "f.docx" -> ".docx"
      [] OTHER -> ".exe"

\* RecursiveCharacterTextSplitter.split_text: whitespace-only pieces are
\* stripped away, every other paragraph becomes one chunk, in order.
split_text(text) ==
    SelectSeq(text, LAMBDA p : p # 0)

\* A variant of WrapChunks that keeps an empty text as one empty chunk
\* ("split_text(text) or [text]").
WrapChunksKeepEmpty(chunks, filename) ==
    IF chunks = <<>>
    THEN <<[text |-> 0,
            metadata |-> [source |-> filename, chunk_id |-> 0, total_chunks |-> 1]]>>
    ELSE [i \in 1..Len(chunks) |->
            [text |-> chunks[i],
             metadata |-> [source |-> filename,
                           chunk_id |-> i - 1,
                           total_chunks |-> Len(chunks)]]]

\* The metadata loop of process: one dict per chunk.
WrapChunks(chunks, filename) ==
    [i \in 1..Len(chunks) |->
        [text |-> chunks[i],
         metadata |-> [source |-> filename,
                       chunk_id |-> i - 1,
                       total_chunks |-> Len(chunks)]]]

\* DocumentProcessor.process: [raised, chunks].  Extraction raises on
\* unreadable bytes (pypdf / python-docx errors, UnicodeDecodeError) and
\* on a file type process does not know.
process(content, filename) ==
    IF Suffix(filename) \notin {".pdf", ".txt", ".docx"}
    THEN [raised |-> "ValueError", chunks |-> <<>>]
    ELSE IF ~content.ok
    THEN [raised |-> "ExtractionError", chunks |-> <<>>]
    ELSE [raised |-> "none",
          chunks |-> WrapChunks(split_text(content.text), filename)]

\* ---------------------------------------------------- vector_store.py
\* Outcomes of requests.post to the embedding service.
EmbedOutcomes == {"ok", "status", "timeout", "network", "malformed"}

\* The vector the embedding service returns for a text.
ServiceEmbedding(text) ==
    4 * text

\* _fallback_embedding: md5 of the text seeds the generator; the vector is
\* a function of the text alone and unrelated to the service's vector.
_fallback_embedding(text) ==
    13 - 5 * text

\* The steps of _fallback_embedding on numpy's global generator.
\* `dim=384`, the default every caller of _fallback_embedding uses.
FallbackDim == 384

\* hashlib.md5(text.encode()).hexdigest(): 128 bits, as eight 16-bit words,
\* most significant first.
Md5Words(text) ==
    [j \in 1..8 |-> ((text + 1) * (40503 + 2 * j)) % 65536]

\* `int(text_hash, 16) % (2**32)`: the low 32 bits of the digest.
FallbackSeed(text) ==
    SubSeq(Md5Words(text), 7, 8)

\* The generator as the interpreter leaves it at start-up: keyed from the
\* operating system's entropy e, nothing drawn yet.
Unseeded(e) ==
    [key |-> <<e, e>>, pos |-> 0]

\* A variant of np.random.seed that leaves the generator as it is.
KeepGeneratorState(state, seed) ==
    state

\* np.random.seed(seed): the global generator restarts from the seed.
np_random_seed(state, seed) ==
    [key |-> seed, pos |-> 0]

\* The sample the generator keyed with key gives at position pos of its stream.
Sample(key, pos) ==
    (key[1] + 31 * key[2] + 7 * pos) % 1000

\* np.random.randn(dim): the next dim samples of the global generator,
\* which moves on by dim positions.
np_random_randn(state, dim) ==
    [vector |-> [i \in 1..dim |-> Sample(state.key, state.pos + i)],
     state |-> [state EXCEPT !.pos = @ + dim]]

\* A variant of the except clause of _generate_embedding that catches
\* requests' own exceptions only.
CatchesRequestErrorsOnly(exc) ==
    exc \in {"Timeout", "ConnectionError"}

\* `except Exception` of _generate_embedding: which exceptions of the try
\* block it catches.
EmbeddingExceptCatches(exc) ==
    TRUE

\* _generate_embedding: [raised, vec].
_generate_embedding(text, outcome) ==
    LET try ==
          CASE outcome = "timeout" -> [raised |-> "Timeout", vec |-> 0]
            [] outcome = "network" -> [raised |-> "ConnectionError", vec |-> 0]
            [] outcome = "malformed" -> [raised |-> "MalformedResponse", vec |-> 0]
            [] outcome = "ok" -> [raised |-> "none", vec |-> ServiceEmbedding(text)]
            [] OTHER -> [raised |-> "none", vec |-> _fallback_embedding(text)]
    IN  IF try.raised # "none" /\ EmbeddingExceptCatches(try.raised)
        THEN [raised |-> "none", vec |-> _fallback_embedding(text)]
        ELSE try

\* A variant of ChunkRecords whose loop stops one chunk early.
ChunkRecordsDropLast(doc_id, filename, chunks, embeddings) ==
    {[id |-> <<doc_id, i - 1>>,
      embedding |-> embeddings[i],
      document |-> chunks[i].text,
      metadata |-> [source |-> chunks[i].metadata.source,
                    chunk_id |-> chunks[i].metadata.chunk_id,
                    total_chunks |-> chunks[i].metadata.total_chunks,
                    document_id |-> doc_id,
                    filename |-> filename]] : i \in 1..(Len(chunks) - 1)}

\* The records add_document prepares: ids "{doc_id}_{i}", the chunk's
\* metadata extended with document_id and filename.
ChunkRecords(doc_id, filename, chunks, embeddings) ==
    {[id |-> <<doc_id, i - 1>>,
      embedding |-> embeddings[i],
      document |-> chunks[i].text,
      metadata |-> [source |-> chunks[i].metadata.source,
                    chunk_id |-> chunks[i].metadata.chunk_id,
                    total_chunks |-> chunks[i].metadata.total_chunks,
                    document_id |-> doc_id,
                    filename |-> filename]] : i \in 1..Len(chunks)}

\* A variant of StoredOnFailure: records were added one at a time and the
\* first one stays behind when the insert fails.
FirstStoredOnFailure(coll, recs) ==
    coll \cup {c \in recs : c.id[2] = 0}

\* What the collection holds after collection.add raised: the one batched
\* call stores nothing unless the whole batch is accepted.
StoredOnFailure(coll, recs) ==
    coll

\* collection.add(ids, embeddings, documents, metadatas): [raised, coll].
\* An empty id list is rejected (ValueError); the store may fail.
CollectionAdd(coll, recs, storeOk) ==
    IF recs = {}
    THEN [raised |-> "ValueError", coll |-> StoredOnFailure(coll, recs)]
    ELSE IF ~storeOk
    THEN [raised |-> "ChromaError", coll |-> StoredOnFailure(coll, recs)]
    ELSE [raised |-> "none", coll |-> coll \cup recs]

Distance(u, v) ==
    (u - v) * (u - v)

\* The records of coll nearest to the query vector.
Nearest(coll, qv) ==
    {c \in coll : \A d \in coll : Distance(c.embedding, qv) <= Distance(d.embedding, qv)}

\* collection.query(query_embeddings=[qv], n_results=n): every order in
\* which the min(n, count) nearest records can come back, nearest first.
RECURSIVE CollectionQuery(_, _, _)
CollectionQuery(coll, qv, n) ==
    IF n <= 0 \/ coll = {}
    THEN {<<>>}
    ELSE UNION {{<<c>> \o rest : rest \in CollectionQuery(coll \ {c}, qv, n - 1)} :
                    c \in Nearest(coll, qv)}

\* The formatting loop of search: text, metadata and distance per hit.
FormatResults(hits, qv) ==
    [i \in 1..Len(hits) |->
        [text |-> hits[i].document,
         metadata |-> hits[i].metadata,
         distance |-> Distance(hits[i].embedding, qv)]]

\* A variant of search that asks the collection for one result too many.
searchOneMore(coll, qv, top_k) ==
    IF top_k <= 0
    THEN [raised |-> "ValueError", results |-> {<<>>}]
    ELSE [raised |-> "none",
          results |-> {FormatResults(h, qv) : h \in CollectionQuery(coll, qv, top_k + 1)}]

\* VectorStore.search after the query was embedded: [raised, results], the
\* set of chunk lists it can return.  n_results < 1 is rejected.
search(coll, qv, top_k) ==
    IF top_k <= 0
    THEN [raised |-> "ValueError", results |-> {<<>>}]
    ELSE [raised |-> "none",
          results |-> {FormatResults(h, qv) : h \in CollectionQuery(coll, qv, top_k)}]

\* A variant of DocumentRecordIds that finds the document's first chunk only.
FirstRecordId(coll, doc_id) ==
    {c.id : c \in {x \in coll : x.metadata.document_id = doc_id /\ x.id[2] = 0}}

\* collection.get(where={"document_id": doc_id})["ids"].
DocumentRecordIds(coll, doc_id) ==
    {c.id : c \in {x \in coll : x.metadata.document_id = doc_id}}

\* VectorStore.delete_document: [raised, coll].
delete_document(coll, doc_id, storeOk) ==
    IF ~storeOk
    THEN [raised |-> "ChromaError", coll |-> coll]
    ELSE LET ids == DocumentRecordIds(coll, doc_id)
         IN  [raised |-> "none", coll |-> {c \in coll : c.id \notin ids}]


\* -------------------------------------------------------- qa_engine.py
\* Outcomes of requests.post to the answer-generation service.
AnswerOutcomes == {"ok", "status", "timeout", "network", "malformed"}

\* A variant of _call_grok_api whose timeout handler returns an empty
\* string.
EmptyAnswerOnTimeout(outcome) ==
    CASE outcome = "ok" -> "answer"
      [] outcome = "status" -> "Grok API error"
      [] outcome = "timeout" -> ""
      [] outcome = "network" -> "Network error"
      [] OTHER -> "Unexpected error"

\* _call_grok_api: every outcome comes back as a string.
_call_grok_api(outcome) ==
    CASE outcome = "ok" -> "answer"
      [] outcome = "status" -> "Grok API error"
      [] outcome = "timeout" -> "Request timed out. Please try again."
      [] outcome = "network" -> "Network error"
      [] OTHER -> "Unexpected error"

\* generate_answer: the try around _call_grok_api has nothing to catch.
generate_answer(outcome) ==
    _call_grok_api(outcome)

\* -------------------------------------------------------------- main.py
VARIABLES
    documents_db,   \* main.documents_db: document_id -> its DocumentInfo
    collection,     \* vector_store.collection: the set of stored records
    next_uuid,      \* the next identifier uuid.uuid4() hands out
    req,            \* per connection slot: the request and its handler's locals
    loop,           \* the slot whose handler holds the event loop, 0 if none
    np_random,      \* numpy's global RandomState, shared by every caller
    fb,             \* per connection slot: the frame of its _fallback_embedding call
    embedded        \* the texts and vectors _fallback_embedding has returned, in order

vars == <<documents_db, collection, next_uuid, req, loop, np_random, fb, embedded>>

EmptyDb == [d \in {} |-> 0]

Idle ==
    [pc |-> "idle", kind |-> "none", filename |-> "", content |-> [ok |-> FALSE, text |-> <<>>],
     question |-> 0, top_k |-> 0, doc_id |-> 0, chunks |-> <<>>, embeddings |-> <<>>,
     sources |-> <<>>, answer |-> "", generation |-> "none", status |-> 0,
     exc |-> "none",
     coll0 |-> {}, reg0 |-> EmptyDb]

\* A variant of Suspends in which a handler can be suspended anywhere
\* (handlers run in worker threads, or await between their steps).
SuspendsAnywhere(pc) ==
    TRUE

\* Where a handler gives up the event loop before it returns: the only
\* await of the three handlers is `await file.read()` in upload_document.
Suspends(pc) ==
    pc = "up_await"

\* The event loop runs one handler at a time, from one await to the next.
Runnable(r) ==
    \/ loop = r
    \/ loop = 0 /\ (req[r].pc = "idle" \/ Suspends(req[r].pc))

LoopAfter(r, pc) ==
    IF Suspends(pc) THEN 0 ELSE r

\* `except Exception as e: raise HTTPException(500, ...)` around every
\* handler body: HTTPException is an Exception, so it is caught as well.
HandlerStatus(exc) ==
    IF exc = "none" THEN 200 ELSE 500

\* The handler of slot r ends with exception exc (or "none").
Responded(r, exc) ==
    [req[r] EXCEPT !.pc = "responded", !.exc = exc, !.status = HandlerStatus(exc)]

\* Uploads suspended before add_document drew their uuid.
UploadsAhead ==
    Cardinality({r \in Slots : req[r].pc = "up_await"})

\* No call of _fallback_embedding in progress.
NoCall ==
    [pc |-> "idle", text |-> 0, seed |-> <<>>]

Init ==
    /\ documents_db = EmptyDb
    /\ collection = {}
    /\ next_uuid = 1
    /\ req = [r \in Slots |-> Idle]
    /\ loop = 0
    /\ np_random = Unseeded(0)
    /\ fb = [r \in Slots |-> NoCall]
    /\ embedded = <<>>

\* upload_document up to `await file.read()`: the file type is validated.
UploadBegin(r) ==
    /\ req[r].pc = "idle" /\ Runnable(r)
    /\ next_uuid + UploadsAhead <= MaxDocs
    /\ \E filename \in Filenames :
         LET me == [req[r] EXCEPT !.kind = "upload", !.filename = filename,
                                  !.coll0 = collection, !.reg0 = documents_db]
         IN  IF Suffix(filename) \notin {".pdf", ".txt", ".docx"}
             THEN /\ req' = [req EXCEPT ![r] =
                               [me EXCEPT !.pc = "responded", !.exc = "HTTP400",
                                          !.status = HandlerStatus("HTTP400")]]
                  /\ loop' = LoopAfter(r, "responded")
             ELSE /\ req' = [req EXCEPT ![r] = [me EXCEPT !.pc = "up_await"]]
                  /\ loop' = LoopAfter(r, "up_await")
    /\ UNCHANGED <<documents_db, collection, next_uuid>>
    /\ UNCHANGED <<np_random, fb, embedded>>

\* The bytes are read; doc_processor.process runs and add_document draws
\* the document's uuid.
UploadProcess(r) ==
    /\ req[r].pc = "up_await" /\ Runnable(r)
    /\ \E content \in Contents :
         LET p == process(content, req[r].filename)
             me == [req[r] EXCEPT !.content = content,
                                  !.coll0 = collection, !.reg0 = documents_db]
         IN  IF p.raised # "none"
             THEN /\ req' = [req EXCEPT ![r] =
                               [me EXCEPT !.pc = "responded", !.exc = p.raised,
                                          !.status = HandlerStatus(p.raised)]]
                  /\ loop' = LoopAfter(r, "responded")
                  /\ UNCHANGED next_uuid
             ELSE /\ req' = [req EXCEPT ![r] =
                               [me EXCEPT !.pc = "up_embed", !.chunks = p.chunks,
                                          !.doc_id = next_uuid]]
                  /\ loop' = LoopAfter(r, "up_embed")
                  /\ next_uuid' = next_uuid + 1
    /\ UNCHANGED <<documents_db, collection>>
    /\ UNCHANGED <<np_random, fb, embedded>>

\* One turn of add_document's loop: the next chunk is embedded.
UploadEmbed(r) ==
    /\ req[r].pc = "up_embed" /\ Runnable(r)
    /\ Len(req[r].embeddings) < Len(req[r].chunks)
    /\ \E outcome \in EmbedOutcomes :
         LET i == Len(req[r].embeddings) + 1
             e == _generate_embedding(req[r].chunks[i].text, outcome)
         IN  IF e.raised # "none"
             THEN /\ req' = [req EXCEPT ![r] = Responded(r, e.raised)]
                  /\ loop' = LoopAfter(r, "responded")
             ELSE /\ req' = [req EXCEPT ![r].embeddings = Append(@, e.vec)]
                  /\ loop' = LoopAfter(r, "up_embed")
    /\ UNCHANGED <<documents_db, collection, next_uuid>>
    /\ UNCHANGED <<np_random, fb, embedded>>

\* The one collection.add call that ends add_document.
UploadAdd(r) ==
    /\ req[r].pc = "up_embed" /\ Runnable(r)
    /\ Len(req[r].embeddings) = Len(req[r].chunks)
    /\ \E storeOk \in BOOLEAN :
         LET recs == ChunkRecords(req[r].doc_id, req[r].filename,
                                  req[r].chunks, req[r].embeddings)
             a == CollectionAdd(collection, recs, storeOk)
         IN  /\ collection' = a.coll
             /\ IF a.raised # "none"
                THEN /\ req' = [req EXCEPT ![r] = Responded(r, a.raised)]
                     /\ loop' = LoopAfter(r, "responded")
                ELSE /\ req' = [req EXCEPT ![r].pc = "up_register"]
                     /\ loop' = LoopAfter(r, "up_register")
    /\ UNCHANGED <<documents_db, next_uuid>>
    /\ UNCHANGED <<np_random, fb, embedded>>

\* A variant of RegisterDocument that records one chunk too many.
RegisterDocumentOffByOne(db, doc_id, filename, chunks) ==
    [d \in DOMAIN db \cup {doc_id} |->
        IF d = doc_id
        THEN [id |-> doc_id, filename |-> filename, chunk_count |-> Len(chunks) + 1]
        ELSE db[d]]

\* documents_db[doc_id] = {...}.
RegisterDocument(db, doc_id, filename, chunks) ==
    [d \in DOMAIN db \cup {doc_id} |->
        IF d = doc_id
        THEN [id |-> doc_id, filename |-> filename, chunk_count |-> Len(chunks)]
        ELSE db[d]]

UploadRegister(r) ==
    /\ req[r].pc = "up_register" /\ Runnable(r)
    /\ documents_db' = RegisterDocument(documents_db, req[r].doc_id,
                                        req[r].filename, req[r].chunks)
    /\ req' = [req EXCEPT ![r] = Responded(r, "none")]
    /\ loop' = LoopAfter(r, "responded")
    /\ UNCHANGED <<collection, next_uuid>>
    /\ UNCHANGED <<np_random, fb, embedded>>

\* query_documents: vector_store.search embeds the question and queries.
QuerySearch(r) ==
    /\ req[r].pc = "idle" /\ Runnable(r)
    /\ \E question \in Questions, top_k \in TopKs, outcome \in EmbedOutcomes :
         LET e == _generate_embedding(question, outcome)
             me == [req[r] EXCEPT !.kind = "query", !.question = question, !.top_k = top_k,
                                  !.coll0 = collection, !.reg0 = documents_db]
         IN  IF e.raised # "none"
             THEN /\ req' = [req EXCEPT ![r] =
                               [me EXCEPT !.pc = "responded", !.exc = e.raised,
                                          !.status = HandlerStatus(e.raised)]]
                  /\ loop' = LoopAfter(r, "responded")
             ELSE LET s == search(collection, e.vec, top_k)
                  IN  IF s.raised # "none"
                      THEN /\ req' = [req EXCEPT ![r] =
                                        [me EXCEPT !.pc = "responded", !.exc = s.raised,
                                                   !.embeddings = <<e.vec>>,
                                                   !.status = HandlerStatus(s.raised)]]
                           /\ loop' = LoopAfter(r, "responded")
                      ELSE /\ \E res \in s.results :
                                req' = [req EXCEPT ![r] =
                                          [me EXCEPT !.pc = "q_found", !.sources = res,
                                                     !.embeddings = <<e.vec>>]]
                           /\ loop' = LoopAfter(r, "q_found")
    /\ UNCHANGED <<documents_db, collection, next_uuid>>
    /\ UNCHANGED <<np_random, fb, embedded>>

\* `if not relevant_chunks: raise HTTPException(404)`, else the answer;
\* the QueryResponse carries the answer and the sources, nothing else.
\* generation records how the answer service responded.
QueryAnswer(r) ==
    /\ req[r].pc = "q_found" /\ Runnable(r)
    /\ IF req[r].sources = <<>>
       THEN req' = [req EXCEPT ![r] = Responded(r, "HTTP404")]
       ELSE \E outcome \in AnswerOutcomes :
              req' = [req EXCEPT ![r] =
                        [Idle EXCEPT !.pc = "responded", !.kind = "query",
                                     !.status = HandlerStatus("none"),
                                     !.sources = req[r].sources,
                                     !.generation = outcome,
                                     !.answer = generate_answer(outcome)]]
    /\ loop' = LoopAfter(r, "responded")
    /\ UNCHANGED <<documents_db, collection, next_uuid>>
    /\ UNCHANGED <<np_random, fb, embedded>>

\* delete_document: `if doc_id not in documents_db: raise HTTPException(404)`.
DeleteCheck(r) ==
    /\ req[r].pc = "idle" /\ Runnable(r)
    /\ \E doc_id \in DocIds :
       LET me == [req[r] EXCEPT !.kind = "delete", !.doc_id = doc_id,
                                !.coll0 = collection, !.reg0 = documents_db]
       IN  IF doc_id \notin DOMAIN documents_db
           THEN /\ req' = [req EXCEPT ![r] =
                             [me EXCEPT !.pc = "responded", !.exc = "HTTP404",
                                        !.status = HandlerStatus("HTTP404")]]
                /\ loop' = LoopAfter(r, "responded")
           ELSE /\ req' = [req EXCEPT ![r] = [me EXCEPT !.pc = "d_remove"]]
                /\ loop' = LoopAfter(r, "d_remove")
    /\ UNCHANGED <<documents_db, collection, next_uuid>>
    /\ UNCHANGED <<np_random, fb, embedded>>

\* vector_store.delete_document(doc_id).
DeleteRemove(r) ==
    /\ req[r].pc = "d_remove" /\ Runnable(r)
    /\ \E storeOk \in BOOLEAN :
         LET x == delete_document(collection, req[r].doc_id, storeOk)
         IN  /\ collection' = x.coll
             /\ IF x.raised # "none"
                THEN /\ req' = [req EXCEPT ![r] = Responded(r, x.raised)]
                     /\ loop' = LoopAfter(r, "responded")
                ELSE /\ req' = [req EXCEPT ![r].pc = "d_unregister"]
                     /\ loop' = LoopAfter(r, "d_unregister")
    /\ UNCHANGED <<documents_db, next_uuid>>
    /\ UNCHANGED <<np_random, fb, embedded>>

\* A variant of UnregisterDocument that leaves the entry where it is.
KeepDocument(db, doc_id) ==
    db

\* del documents_db[doc_id], the key being present.
UnregisterDocument(db, doc_id) ==
    [d \in DOMAIN db \ {doc_id} |-> db[d]]

DeleteUnregister(r) ==
    /\ req[r].pc = "d_unregister" /\ Runnable(r)
    /\ IF req[r].doc_id \notin DOMAIN documents_db
       THEN /\ req' = [req EXCEPT ![r] = Responded(r, "KeyError")]
            /\ UNCHANGED documents_db
       ELSE /\ documents_db' = UnregisterDocument(documents_db, req[r].doc_id)
            /\ req' = [req EXCEPT ![r] = Responded(r, "none")]
    /\ loop' = LoopAfter(r, "responded")
    /\ UNCHANGED <<collection, next_uuid>>
    /\ UNCHANGED <<np_random, fb, embedded>>

\* The response leaves; the handler's locals are gone, the slot is free.
Finish(r) ==
    /\ req[r].pc = "responded"
    /\ loop \in {0, r}
    /\ req' = [req EXCEPT ![r] = Idle]
    /\ loop' = 0
    /\ UNCHANGED <<documents_db, collection, next_uuid>>
    /\ UNCHANGED <<np_random, fb, embedded>>

\* The handlers take the fallback vector of a text as _fallback_embedding
\* gives it; the generator behind it is stepped in FallbackSpec below.
Next ==
    \E r \in Slots :
        \/ UploadBegin(r)
        \/ UploadProcess(r)
        \/ UploadEmbed(r)
        \/ UploadAdd(r)
        \/ UploadRegister(r)
        \/ QuerySearch(r)
        \/ QueryAnswer(r)
        \/ DeleteCheck(r)
        \/ DeleteRemove(r)
        \/ DeleteUnregister(r)
        \/ Finish(r)

Spec == Init /\ [][Next]_vars

\* ---------------------------------------------------------- properties
IsResponded(r, kind) ==
    req[r].pc = "responded" /\ req[r].kind = kind

\* Every chunk of coll comes with all the chunks of its document.
NoPartialBatch(coll) ==
    \A c \in coll : \A i \in 0..(c.metadata.total_chunks - 1) :
        \E x \in coll : x.id = <<c.metadata.document_id, i>>

TaggedWith(coll, doc_id) ==
    {c \in coll : c.metadata.document_id = doc_id}

\* C1: a query whose search returned no chunk is answered with the
\* not-found status 404.
EmptyQueryIsNotFound ==
    \A r \in Slots :
        (IsResponded(r, "query") /\ req[r].exc = "HTTP404") => req[r].status = 404

\* C2: a delete of a document_id that is not in the registry is answered
\* with the not-found status 404 and leaves registry and index as they were.
UnknownDeleteIsNotFound ==
    \A r \in Slots :
        (IsResponded(r, "delete") /\ req[r].doc_id \notin DOMAIN req[r].reg0)
            => /\ req[r].status = 404
               /\ collection = req[r].coll0
               /\ documents_db = req[r].reg0

\* C3: an upload that fails leaves the index and the registry as they were
\* before it; an upload that succeeds has stored every chunk of the
\* document and registered the document.
IngestAllOrNothing ==
    \A r \in Slots :
        IsResponded(r, "upload") =>
            IF req[r].status = 200
            THEN /\ \A i \in 1..Len(req[r].chunks) :
                        \E c \in collection :
                            /\ c.id = <<req[r].doc_id, i - 1>>
                            /\ c.document = req[r].chunks[i].text
                            /\ c.metadata.document_id = req[r].doc_id
                 /\ Cardinality(collection) = Cardinality(req[r].coll0) + Len(req[r].chunks)
                 /\ req[r].doc_id \in DOMAIN documents_db
            ELSE /\ Cardinality(collection) = Cardinality(req[r].coll0)
                 /\ collection = req[r].coll0
                 /\ documents_db = req[r].reg0

\* An upload of two chunks has failed at the batch insert.
IngestFailedAtInsert ==
    \E r \in Slots :
        /\ IsResponded(r, "upload")
        /\ req[r].exc = "ChromaError"
        /\ Len(req[r].embeddings) = 2

\* The document ids add_document has drawn that are neither registered
\* nor being ingested: those of deleted documents (and of failed uploads).
\* A document id is drawn once, so an id that is gone stays gone.
Gone ==
    {d \in 1..(next_uuid - 1) :
        /\ d \notin DOMAIN documents_db
        /\ \A r \in Slots : ~(req[r].kind = "upload" /\ req[r].doc_id = d
                                 /\ req[r].pc \in {"up_embed", "up_register", "responded"})}

\* C4: once a document is deleted with success no chunk tagged with it is
\* in the index or in a query's result, whatever happens afterwards; the
\* delete removed exactly the document's chunk_count records and nothing
\* of another document.
DeletionComplete ==
    /\ \A r \in Slots :
          (IsResponded(r, "delete") /\ req[r].status = 200) => req[r].doc_id \in Gone
    /\ \A c \in collection : c.metadata.document_id \notin Gone
    /\ \A r \in Slots :
          (req[r].kind = "query" /\ req[r].pc = "q_found") =>
              \A i \in 1..Len(req[r].sources) :
                  req[r].sources[i].metadata.document_id \notin Gone
    /\ \A r \in Slots :
          (IsResponded(r, "delete") /\ req[r].status = 200) =>
              /\ collection = req[r].coll0 \ TaggedWith(req[r].coll0, req[r].doc_id)
              /\ Cardinality(collection) =
                    Cardinality(req[r].coll0) - req[r].reg0[req[r].doc_id].chunk_count

\* Of two documents the first, of two chunks, has just been deleted and
\* the chunks of the second are still in the index.
DeletedFirstOfTwo ==
    \E r \in Slots :
        /\ IsResponded(r, "delete") /\ req[r].status = 200
        /\ req[r].doc_id = 1
        /\ req[r].reg0[1].chunk_count = 2
        /\ TaggedWith(collection, 2) # {}

\* C5: whenever no handler holds the event loop, the registry's keys are
\* the document ids that tag a record of the index.
RegistryMatchesIndex ==
    loop = 0 => DOMAIN documents_db = {c.metadata.document_id : c \in collection}

\* Between requests, after a failed upload, a delete and a successful upload.
RegistryAfterFailuresAndDelete ==
    /\ loop = 0
    /\ \A r \in Slots : req[r].pc = "idle"
    /\ Gone # {}
    /\ DOMAIN documents_db # {}

\* The text of an upload is empty or chunks to nothing.
TextChunksToNothing(r) ==
    req[r].content.ok /\ split_text(req[r].content.text) = <<>>

\* C6: an upload whose text is empty or chunks to zero segments fails, and
\* neither the registry nor the index gains anything.
EmptyTextRejected ==
    \A r \in Slots :
        (IsResponded(r, "upload") /\ TextChunksToNothing(r))
            => /\ req[r].status = 500
               /\ req[r].exc = "ValueError"
               /\ collection = req[r].coll0
               /\ documents_db = req[r].reg0

\* An upload of a whitespace-only text has been refused.
BlankTextRefused ==
    \E r \in Slots :
        /\ IsResponded(r, "upload")
        /\ req[r].content = [ok |-> TRUE, text |-> <<0>>]
        /\ req[r].status = 500

\* C7: what a query reads from the index holds, of every document, all of
\* its chunks or none, also while an upload is under way.
NoPartialBatchVisible ==
    /\ loop = 0 => NoPartialBatch(collection)
    /\ \A r \in Slots :
          (req[r].kind = "query" /\ req[r].pc = "q_found") => NoPartialBatch(req[r].coll0)

\* A query has read a two-chunk document while an upload is suspended.
QueryDuringUpload ==
    \E r, u \in Slots :
        /\ req[r].kind = "query" /\ req[r].pc = "q_found"
        /\ req[u].pc = "up_await"
        /\ \E c \in req[r].coll0 : c.metadata.total_chunks = 2

PastExistenceCheck(r) ==
    req[r].kind = "delete" /\ req[r].pc \in {"d_remove", "d_unregister"}

Ingesting(r) ==
    req[r].kind = "upload" /\ req[r].pc \in {"up_embed", "up_register"}

\* C8: no delete of d is past its existence check while d is being
\* ingested, and no two deletes of d are past the check together.
NoInterleavingOnDocument ==
    \A r, q \in Slots :
        r # q =>
            /\ ~(PastExistenceCheck(r) /\ Ingesting(q) /\ req[r].doc_id = req[q].doc_id)
            /\ ~(PastExistenceCheck(r) /\ PastExistenceCheck(q) /\ req[r].doc_id = req[q].doc_id)

\* A delete is past its check while an upload is suspended at its await.
DeleteDuringUpload ==
    \E r, u \in Slots :
        /\ PastExistenceCheck(r)
        /\ req[u].pc = "up_await"

Served(r, c) ==
    \E i \in 1..Len(req[r].sources) : req[r].sources[i].metadata = c.metadata

\* C9: for top_k >= 1 search returns at most top_k entries in ascending
\* distance, each the text and metadata of a stored chunk with its
\* distance to the query vector; exactly the top_k nearest when the index
\* holds that many; the empty sequence, and no error, on an empty index.
SearchReturnsNearest ==
    \A r \in Slots :
        /\ (req[r].kind = "query" /\ req[r].pc = "q_found") =>
              LET s == req[r].sources
                  qv == req[r].embeddings[1]
                  coll == req[r].coll0
              IN  /\ Len(s) <= req[r].top_k
                  /\ \A i, j \in 1..Len(s) : i < j =>
                        /\ s[i].distance <= s[j].distance
                        /\ s[i].metadata # s[j].metadata
                  /\ \A i \in 1..Len(s) : \E c \in coll :
                        /\ c.document = s[i].text
                        /\ c.metadata = s[i].metadata
                        /\ Distance(c.embedding, qv) = s[i].distance
                  /\ Cardinality(coll) >= req[r].top_k => Len(s) = req[r].top_k
                  /\ \A c \in coll : ~Served(r, c) =>
                        \A i \in 1..Len(s) : s[i].distance <= Distance(c.embedding, qv)
                  /\ coll = {} => s = <<>>
        /\ (IsResponded(r, "query") /\ req[r].top_k >= 1 /\ req[r].coll0 = {}) =>
              req[r].exc = "HTTP404"

\* A search over more than top_k records returned top_k of them, the
\* nearer one first.
SearchChoseAmongMore ==
    \E r \in Slots :
        /\ req[r].kind = "query" /\ req[r].pc = "q_found"
        /\ Cardinality(req[r].coll0) > req[r].top_k
        /\ Len(req[r].sources) = 2
        /\ req[r].sources[1].distance < req[r].sources[2].distance

EmbeddingErrors == {"Timeout", "ConnectionError", "MalformedResponse"}

EmbeddedTexts == 0..MaxChunks

\* What the operating system's entropy may key the generator with.
Entropy == {1, 2}

\* _fallback_embedding holds no await: its caller keeps the event loop
\* from the first statement to the return.
FallbackRunnable(r) ==
    loop = r \/ (loop = 0 /\ (fb[r].pc = "idle" \/ Suspends(fb[r].pc)))

FallbackInit ==
    /\ documents_db = EmptyDb
    /\ collection = {}
    /\ next_uuid = 1
    /\ req = [r \in Slots |-> Idle]
    /\ loop = 0
    /\ \E e \in Entropy : np_random = Unseeded(e)
    /\ fb = [r \in Slots |-> NoCall]
    /\ embedded = <<>>

\* `text_hash = hashlib.md5(...)`, `seed = int(text_hash, 16) % (2**32)`.
FallbackHash(r) ==
    /\ fb[r].pc = "idle" /\ FallbackRunnable(r)
    /\ Len(embedded) < MaxCalls
    /\ \E text \in EmbeddedTexts :
         fb' = [fb EXCEPT ![r] = [pc |-> "fb_seed", text |-> text,
                                  seed |-> FallbackSeed(text)]]
    /\ loop' = LoopAfter(r, "fb_seed")
    /\ UNCHANGED <<np_random, embedded>>
    /\ UNCHANGED <<documents_db, collection, next_uuid, req>>

\* `np.random.seed(seed)`.
FallbackReseed(r) ==
    /\ fb[r].pc = "fb_seed" /\ FallbackRunnable(r)
    /\ np_random' = np_random_seed(np_random, fb[r].seed)
    /\ fb' = [fb EXCEPT ![r].pc = "fb_randn"]
    /\ loop' = LoopAfter(r, "fb_randn")
    /\ UNCHANGED embedded
    /\ UNCHANGED <<documents_db, collection, next_uuid, req>>

\* `return np.random.randn(dim).tolist()`.
FallbackDraw(r) ==
    /\ fb[r].pc = "fb_randn" /\ FallbackRunnable(r)
    /\ LET drawn == np_random_randn(np_random, FallbackDim)
       IN /\ np_random' = drawn.state
          /\ embedded' = Append(embedded, [text |-> fb[r].text,
                                           vector |-> drawn.vector])
    /\ fb' = [fb EXCEPT ![r] = NoCall]
    /\ loop' = 0
    /\ UNCHANGED <<documents_db, collection, next_uuid, req>>

FallbackNext ==
    \E r \in Slots :
        \/ FallbackHash(r)
        \/ FallbackReseed(r)
        \/ FallbackDraw(r)

FallbackSpec == FallbackInit /\ [][FallbackNext]_vars

\* C11: whatever texts were embedded before or in between, and by which
\* callers, two calls of _fallback_embedding on the same text return the
\* same vector, and every vector returned has the default dimension.
FallbackDeterministic ==
    \A i \in 1..Len(embedded) :
        /\ Len(embedded[i].vector) = FallbackDim
        /\ \A k \in 1..Len(embedded) :
             embedded[i].text = embedded[k].text
                 => embedded[i].vector = embedded[k].vector

\* The same text embedded twice, with another text embedded in between.
SameTextAroundAnother ==
    \E i, j, k \in 1..Len(embedded) :
        /\ i < j /\ j < k
        /\ embedded[i].text = embedded[k].text
        /\ embedded[j].text # embedded[i].text

\* The strings _call_grok_api and generate_answer return for a failure.
ErrorAnswers ==
    {"Grok API error", "Request timed out. Please try again.",
     "Network error", "Unexpected error", "Error generating answer"}

\* C12: a query whose retrieval returned at least one chunk always ends
\* with a response, and when the answer service failed (timeout, network
\* error, non-success status, malformed response) that response is a
\* success with the retrieved sources unchanged and an error-describing
\* answer.
GenerationFailureAnswered ==
    [][\A r \in Slots :
         (req[r].pc = "q_found" /\ req[r].sources # <<>> /\ req'[r] # req[r])
             => /\ req'[r].pc = "responded"
                /\ req'[r].generation \in AnswerOutcomes
                /\ req'[r].generation # "ok"
                     => /\ req'[r].status = 200
                        /\ req'[r].exc = "none"
                        /\ req'[r].sources = req[r].sources
                        /\ req'[r].answer \in ErrorAnswers]_vars

\* A query with sources answered after the answer service timed out.
AnsweredAfterTimeout ==
    \E r \in Slots :
        /\ IsResponded(r, "query")
        /\ req[r].generation = "timeout"
        /\ req[r].sources # <<>>
        /\ req[r].status = 200

\* C13: after any uploads and deletes, a delete that has removed the
\* records and not yet the registry entry apart, every registered
\* document's chunk_count is the number of index records tagged with its
\* id, the ids of those records are exactly "{document_id}_0" up to
\* "{document_id}_{chunk_count-1}", and no two records of the index share
\* a chunk id.
RegistryCountsIndexRecords ==
    (\A r \in Slots : req[r].pc # "d_unregister") =>
        /\ \A d \in DOMAIN documents_db :
              LET recs == TaggedWith(collection, d)
                  n == documents_db[d].chunk_count
              IN  /\ Cardinality(recs) = n
                  /\ {c.id : c \in recs} = {<<d, i>> : i \in 0..(n - 1)}
        /\ \A c1, c2 \in collection : c1.id = c2.id => c1 = c2

\* A document of two chunks is registered and the delete of another
\* document has just succeeded.
TwoChunksRegisteredAfterDelete ==
    /\ \E r \in Slots : IsResponded(r, "delete") /\ req[r].status = 200
    /\ \E d \in DOMAIN documents_db : documents_db[d].chunk_count = 2

====
